---- MODULE Spec2Model ----
(***************************************************************************)
(* Model of sync.py: the one-shot synchronisation of a Mendeley folder     *)
(* with a folder of a reMarkable tablet.  main() is modelled step by step  *)
(* (folder lookup, snapshot, three-way diff, then the three loops), with   *)
(* every call to Mendeley, to rmapi and to the local file system made      *)
(* explicit.  Calls to the two remote services may fail; local file system *)
(* calls (shutil.move, os.remove, os.makedirs) are taken to succeed.       *)
(* Names are sequences of one-character strings so that to_filename and    *)
(* the "{}---{}" format are computed, not assumed.                         *)
(***************************************************************************)
EXTENDS Integers, Sequences, FiniteSets, TLC

(* ------------------------------ bounds --------------------------------- *)
\* documents in the Mendeley folder
MaxDocs == 2
\* files in the tablet folder
MaxFiles == 2
\* files attached to one Mendeley document
MaxAtt == 2
\* successive runs of main()
MaxRuns == 2
\* length of a title / of an id in the canonicalisation check
MaxTitleLen == 3
MaxIdLen == 2

(* ------------------------------ helpers -------------------------------- *)
Range(s) == {s[x] : x \in DOMAIN s}

SeqsUpTo(S, n) == UNION {[1..m -> S] : m \in 0..n}

NoDup(s) == \A a, b \in DOMAIN s : a # b => s[a] # s[b]

\* python: [x for x in s if x in t]
RECURSIVE Keep(_, _)
Keep(s, t) ==
  IF s = <<>> THEN <<>>
  ELSE IF Head(s) \in t THEN <<Head(s)>> \o Keep(Tail(s), t)
       ELSE Keep(Tail(s), t)

\* python: [x for x in s if x not in t]
RECURSIVE Drop(_, _)
Drop(s, t) ==
  IF s = <<>> THEN <<>>
  ELSE IF Head(s) \notin t THEN <<Head(s)>> \o Drop(Tail(s), t)
       ELSE Drop(Tail(s), t)

(* ------------------------------ constants ------------------------------ *)
REMARKABLE_FOLDER_IN_MENDELEY == "Remarkable"
MENDELEY_FOLDER_IN_REMARKABLE == "Mendeley"

(* --------------------------- identity of a document -------------------- *)
\* text.replace(".", "")
RECURSIVE to_filename(_)
to_filename(text) ==
  IF text = <<>> THEN <<>>
  ELSE IF Head(text) = "." THEN to_filename(Tail(text))
       ELSE <<Head(text)>> \o to_filename(Tail(text))

\* variant of mfiles_key in which the id is left out of the name
mfiles_key_no_id(title, id) == to_filename(title) \o <<"-", "-", "-">>

\* "{}---{}".format(to_filename(m.title), m.id)
mfiles_key(title, id) == to_filename(title) \o <<"-", "-", "-">> \o id

DocKey(m) == mfiles_key(m.title, m.id)

\* the keys of the dict comprehension, in insertion order (a repeated key keeps its
\* first position)
RECURSIVE mfiles_keys(_)
mfiles_keys(docs) ==
  IF docs = <<>> THEN <<>>
  ELSE LET rest == mfiles_keys(SubSeq(docs, 1, Len(docs) - 1))
           k == DocKey(docs[Len(docs)])
       IN IF k \in Range(rest) THEN rest ELSE Append(rest, k)

\* the dict itself: key -> idx; a repeated key keeps the last index
mfiles_of(docs) ==
  [k \in Range(mfiles_keys(docs)) |->
     CHOOSE x \in DOMAIN docs :
       /\ DocKey(docs[x]) = k
       /\ \A y \in DOMAIN docs : DocKey(docs[y]) = k => y <= x]

(* ------------------------------ local paths ---------------------------- *)
\* "{}{}".format(base, ext); n tells the uuid4 tokens apart
Path(base, ext) == [base |-> base, ext |-> ext, n |-> 0]
UuidPath(n) == [base |-> <<"uuid">>, ext |-> ".pdf", n |-> n]
\* the name Mendeley gives to a file downloaded with file_.download(".")
AttachmentPath == [base |-> <<"attachment">>, ext |-> ".pdf", n |-> 0]

\* contents of files
Orig(n) == [kind |-> "orig", of |-> <<>>, n |-> n]
Export(key) == [kind |-> "export", of |-> key, n |-> 0]

\* a local directory as a function path -> content
Put(fs, p, c) == [q \in (DOMAIN fs) \cup {p} |-> IF q = p THEN c ELSE fs[q]]
Del(fs, p) == [q \in (DOMAIN fs) \ {p} |-> fs[q]]
EmptyFs == [q \in {} |-> Orig(0)]

(* ------------------------------ universe ------------------------------- *)
\* Mendeley documents that may be in the folder: ids are unique, two titles
\* differ only by a period
DocPool ==
  { [title |-> <<"A">>, id |-> <<"1">>],
    [title |-> <<"B", ".">>, id |-> <<"2">>],
    [title |-> <<"B">>, id |-> <<"4">>] }

\* names a file of the tablet folder may have: the key of a pool document, or the
\* key of a document no longer in the Mendeley folder
NamePool == {DocKey(m) : m \in DocPool} \cup {<<"C", "-", "-", "-", "3">>}

Chars == {"A", ".", "-"}
IdChars == {"1", "2", "-"}

(* ------------------------------ state ---------------------------------- *)
VARIABLES
  pc,          \* position in main(), or "done" / "aborted"
  status,      \* "" while running; why the run ended: "ok", "config", "fatal"
  run,         \* number of the current run of main()
  folders,     \* Mendeley: names of the user's folders
  library,     \* Mendeley: the documents of the Remarkable folder
  files,       \* Mendeley: index of a document -> its attached files, in order
  topfolders,  \* tablet: names of the top-level folders
  tablet,      \* tablet: names of the files of the Mendeley folder, in ls order
  mdocuments,  \* main: mfolder.documents(session)
  mfiles,      \* main: key -> index into mdocuments
  rfiles,      \* main: rmapi.files(...)
  m_and_r,
  m_minus_r,
  r_minus_m,
  i,           \* position of the running loop in its list
  localpath,   \* main: localpath / properpath of the running iteration
  uuids,       \* number of uuid4 tokens drawn so far
  local,       \* working directory: path -> content
  trashdir,    \* whether ./trash exists
  trash,       \* ./trash: path -> content
  calls,       \* the calls the run has made so far, in order
  pre,         \* the remote and local state when the run started
  prev,        \* how the previous run ended, and its three lists
  codec        \* the canonicalisation check: a title, two ids, the two keys

vars == <<pc, status, run, folders, library, files, topfolders, tablet, mdocuments,
          mfiles, rfiles, m_and_r, m_minus_r, r_minus_m, i, localpath, uuids, local,
          trashdir, trash, calls, pre, prev, codec>>

remote == <<folders, library, files, topfolders, tablet>>
snapshot == <<mdocuments, mfiles, rfiles>>
lists == <<m_and_r, m_minus_r, r_minus_m>>
ghost == <<run, pre, prev, codec>>

NoPath == Path(<<>>, "")
NoMfiles == [k \in {} |-> 0]
CodecIdle == [pc |-> "idle", title |-> <<>>, title2 |-> <<>>, id1 |-> <<>>,
              id2 |-> <<>>, key1 |-> <<>>, key2 |-> <<>>, size |-> 0]
NoPrev == [status |-> "none", m_and_r |-> <<>>, m_minus_r |-> <<>>, r_minus_m |-> <<>>]

Call(op, key, res) == [op |-> op, key |-> key, res |-> res]

Snap == [files |-> files, tablet |-> tablet, trash |-> trash, local |-> local]

(* ------------------------------ initial state -------------------------- *)
\* The folder contents are listed in one fixed order (by id, resp. by name): the
\* order of a listing only decides the order in which a loop visits its keys.
Rank(name) == CHOOSE r \in 1..4 : name[Len(name)] = <<"1", "2", "3", "4">>[r]
Sorted(s) == \A a, b \in DOMAIN s : a < b => Rank(s[a]) < Rank(s[b])
Libraries == {s \in SeqsUpTo(DocPool, MaxDocs) : Sorted([x \in DOMAIN s |-> s[x].id])}
Tablets == {s \in SeqsUpTo(NamePool, MaxFiles) : Sorted(s)}
Attached == {[x \in 1..n |-> Orig(x)] : n \in 0..MaxAtt}

Init ==
  /\ pc = "get_folders"
  /\ status = ""
  /\ run = 1
  /\ folders \in {{REMARKABLE_FOLDER_IN_MENDELEY, "Papers"}, {"Papers"}}
  /\ library \in IF REMARKABLE_FOLDER_IN_MENDELEY \in folders THEN Libraries ELSE {<<>>}
  /\ files \in [DOMAIN library -> Attached]
  /\ topfolders \in {{MENDELEY_FOLDER_IN_REMARKABLE, "Books"}, {"Books"}}
  /\ tablet \in IF MENDELEY_FOLDER_IN_REMARKABLE \in topfolders THEN Tablets ELSE {<<>>}
  /\ mdocuments = <<>>
  /\ mfiles = NoMfiles
  /\ rfiles = <<>>
  /\ m_and_r = <<>>
  /\ m_minus_r = <<>>
  /\ r_minus_m = <<>>
  /\ i = 0
  /\ localpath = NoPath
  /\ uuids = 0
  /\ local = EmptyFs
  /\ trashdir = FALSE
  /\ trash = EmptyFs
  /\ calls = <<>>
  /\ pre = [files |-> files, tablet |-> tablet, trash |-> EmptyFs, local |-> EmptyFs]
  /\ prev = NoPrev
  /\ codec = CodecIdle

\* raise: the run ends here
Abort(why) ==
  /\ pc' = "aborted"
  /\ status' = why

(* ------------------------------ main: lookup and diff ------------------ *)
\* the Remarkable folder is looked up in Mendeley, then its documents are read
\* next(filter(lambda f: f.name == REMARKABLE_FOLDER_IN_MENDELEY, folders), None)
mfolder_found(names) == REMARKABLE_FOLDER_IN_MENDELEY \in names

\* variant of rfolder_found that only asks for some top-level folder
rfolder_found_any(names) == names # {}

\* MENDELEY_FOLDER_IN_REMARKABLE in topfolders
rfolder_found(names) == MENDELEY_FOLDER_IN_REMARKABLE \in names

FindMendeleyFolder ==
  /\ pc = "get_folders"
  /\ IF ~mfolder_found(folders)
     THEN /\ Abort("config")
          /\ UNCHANGED <<mdocuments, mfiles>>
     ELSE /\ mdocuments' = library
          /\ mfiles' = mfiles_of(library)
          /\ pc' = "subfolders"
          /\ UNCHANGED status
  /\ UNCHANGED <<remote, rfiles, lists, i, localpath, uuids, local, trashdir, trash,
                 calls, ghost>>

\* the Mendeley folder is looked up on the tablet, then its files are listed
FindRemarkableFolder ==
  /\ pc = "subfolders"
  /\ IF ~rfolder_found(topfolders)
     THEN /\ Abort("config")
          /\ UNCHANGED rfiles
     ELSE /\ rfiles' = tablet
          /\ pc' = "diff"
          /\ UNCHANGED status
  /\ UNCHANGED <<remote, mdocuments, mfiles, lists, i, localpath, uuids, local,
                 trashdir, trash, calls, ghost>>

\* variant of only_m with the "not" of the comprehension left out
only_m_without_not(mkeys, rf) == Keep(mkeys, Range(rf))

\* variant of only_r that looks the name up where it can never be found
only_r_never_found(mkeys, rf) == Drop(rf, {})

\* variant of in_both with the condition of the comprehension left out
in_both_unfiltered(mkeys, rf) == mkeys

\* the three list comprehensions
in_both(mkeys, rf) == Keep(mkeys, Range(rf))
only_m(mkeys, rf) == Drop(mkeys, Range(rf))
only_r(mkeys, rf) == Drop(rf, Range(mkeys))

Diff ==
  /\ pc = "diff"
  /\ m_and_r' = in_both(mfiles_keys(mdocuments), rfiles)
  /\ m_minus_r' = only_m(mfiles_keys(mdocuments), rfiles)
  /\ r_minus_m' = only_r(mfiles_keys(mdocuments), rfiles)
  /\ i' = 1
  /\ pc' = "both"
  /\ UNCHANGED <<status, remote, snapshot, localpath, uuids, local, trashdir, trash,
                 calls, ghost>>

(* ------------------------------ RmApi ---------------------------------- *)
\* What "rmapi geta -a" can do: "ok" (exit 0, the export and the zip are written),
\* "nofile" (exit 0 but no export where it is looked for), "noannot" (exit # 0, the
\* error text has "Failed to generate annotations"), "fail" (exit # 0, other
\* error).  geta fetches the zip and then generates the export from it: the zip is
\* there when the generation is what failed, and may or may not be there after
\* another failure.
GetaOutcomes ==
  {[res |-> r, zip |-> TRUE] : r \in {"ok", "noannot"}} \cup
  {[res |-> r, zip |-> z] : r \in {"nofile", "fail"}, z \in BOOLEAN}

ZipOf(rfile) == [kind |-> "zip", of |-> rfile, n |-> 0]

\* the working directory after RmApi.download(rfolder, rfile, outpath)
download(fs, rfile, outpath, out) ==
  LET exported == Path(rfile, "-annotations.pdf")
      zipped == Path(rfile, ".zip")
      ran == IF out.zip THEN Put(fs, zipped, ZipOf(rfile)) ELSE fs
  IN IF out.res = "ok"
     THEN Del(Put(Del(Put(ran, exported, Export(rfile)), exported),
                  outpath, Export(rfile)),
              zipped)
     ELSE ran

\* variant of uploaded_name in which the extension stays in the name
uploaded_name_with_ext(p) == p.base \o <<p.ext>>

\* the name "rmapi put" gives to the uploaded file: the file name less its extension
uploaded_name(p) == p.base

\* variant of removed in which "rmapi rm" removes nothing
removed_nothing(ls, rfile) == ls

\* the folder listing after "rmapi rm"
removed(ls, rfile) == Drop(ls, {rfile})

(* ------------------------------ main: documents in both ---------------- *)
\* variant of is_no_annotations that takes every error for the benign one
is_no_annotations_always(out) == TRUE

\* variant of is_no_annotations that looks for a text rmapi never prints
is_no_annotations_never(out) == FALSE

\* str(ex) has "Failed to generate annotations"
is_no_annotations(out) == out.res = "noannot"

\* the try block: a uuid4 localpath, then rmapi.download; the handler skips the
\* document when the error is the no-annotation one and re-raises otherwise
BothDownload ==
  /\ pc = "both"
  /\ i <= Len(m_and_r)
  /\ \E out \in GetaOutcomes :
       LET doc == m_and_r[i]
           lp == UuidPath(uuids + 1)
       IN /\ uuids' = uuids + 1
          /\ localpath' = lp
          /\ local' = download(local, doc, lp, out)
          /\ calls' = Append(calls, Call("geta", doc, out.res))
          /\ IF out.res = "ok"
             THEN /\ pc' = "both_delete"
                  /\ UNCHANGED <<status, i>>
             ELSE IF is_no_annotations(out)
             THEN /\ i' = i + 1
                  /\ UNCHANGED <<pc, status>>
             ELSE /\ Abort("fatal")
                  /\ UNCHANGED i
  /\ UNCHANGED <<remote, snapshot, lists, trashdir, trash, ghost>>

\* variant of files_iter_exhausted in which the loop over the files is left out
files_iter_skipped(fs) == TRUE

\* mdoc.files.iter() has no further file to yield
files_iter_exhausted(fs) == fs = <<>>

\* for file_ in mdoc.files.iter(): file_.delete()   (one file per step)
BothDeleteFile ==
  /\ pc = "both_delete"
  /\ ~files_iter_exhausted(files[mfiles[m_and_r[i]]])
  /\ \E ok \in BOOLEAN :
       LET doc == m_and_r[i]
           idx == mfiles[doc]
       IN /\ calls' = Append(calls, Call("file_delete", doc, IF ok THEN "ok" ELSE "fail"))
          /\ IF ok
             THEN /\ files' = [files EXCEPT ![idx] = Tail(@)]
                  /\ UNCHANGED <<pc, status>>
             ELSE /\ Abort("fatal")
                  /\ UNCHANGED files
  /\ UNCHANGED <<folders, library, topfolders, tablet, snapshot, lists, i, localpath,
                 uuids, local, trashdir, trash, ghost>>

\* mdoc.attach_file(localpath)
BothAttach ==
  /\ pc = "both_delete"
  /\ files_iter_exhausted(files[mfiles[m_and_r[i]]])
  /\ \E ok \in BOOLEAN :
       LET doc == m_and_r[i]
           idx == mfiles[doc]
       IN /\ calls' = Append(calls, Call("attach_file", doc, IF ok THEN "ok" ELSE "fail"))
          /\ IF ok
             THEN /\ files' = [files EXCEPT ![idx] = Append(@, local[localpath])]
                  /\ pc' = "both_remove"
                  /\ UNCHANGED status
             ELSE /\ Abort("fatal")
                  /\ UNCHANGED files
  /\ UNCHANGED <<folders, library, topfolders, tablet, snapshot, lists, i, localpath,
                 uuids, local, trashdir, trash, ghost>>

\* variant of next_doc in which the loop stays at the document it has synced
next_doc_same(at) == at

\* the for loop over m_and_r takes the next element of the list
next_doc(at) == at + 1

\* os.remove(localpath); print("Document synced")
BothRemove ==
  /\ pc = "both_remove"
  /\ local' = Del(local, localpath)
  /\ i' = next_doc(i)
  /\ pc' = "both"
  /\ UNCHANGED <<status, remote, snapshot, lists, localpath, uuids, trashdir, trash,
                 calls, ghost>>

\* variant of next_pass in which the removals come before the uploads
next_pass_removals_first(p) ==
  CASE p = "both" -> "mktrash"
    [] p = "target" -> "source"
    [] p = "source" -> "done"

\* variant of next_pass in which the uploads are left out
next_pass_no_uploads(p) ==
  CASE p = "both" -> "mktrash"
    [] p = "source" -> "mktrash"
    [] p = "target" -> "done"

\* the order of the three loops of main()
next_pass(p) ==
  CASE p = "both" -> "source"
    [] p = "source" -> "mktrash"
    [] p = "target" -> "done"

BothEnd ==
  /\ pc = "both"
  /\ i > Len(m_and_r)
  /\ pc' = next_pass("both")
  /\ i' = 1
  /\ UNCHANGED <<status, remote, snapshot, lists, localpath, uuids, local, trashdir,
                 trash, calls, ghost>>

(* ------------------------------ main: documents only in Mendeley ------- *)
\* variant of after_no_file in which the warning ends the loop (break)
after_no_file_break(at, n) == n + 1

\* the position of the loop after the warning about a document without files:
\* continue, i.e. the next document
after_no_file(at, n) == at + 1

\* the first attached file, if any, is downloaded to "."; a document without
\* files is skipped with a warning
SourceFetch ==
  /\ pc = "source"
  /\ i <= Len(m_minus_r)
  /\ LET doc == m_minus_r[i]
         idx == mfiles[doc]
     IN IF files[idx] = <<>>
        THEN /\ i' = after_no_file(i, Len(m_minus_r))
             /\ UNCHANGED <<pc, status, local, calls>>
        ELSE \E ok \in BOOLEAN :
               /\ calls' = Append(calls, Call("file_download", doc,
                                              IF ok THEN "ok" ELSE "fail"))
               /\ IF ok
                  THEN /\ local' = Put(local, AttachmentPath, Head(files[idx]))
                       /\ pc' = "source_move"
                       /\ UNCHANGED status
                  ELSE /\ Abort("fatal")
                       /\ UNCHANGED local
               /\ UNCHANGED i
  /\ UNCHANGED <<remote, snapshot, lists, localpath, uuids, trashdir, trash, ghost>>

\* properpath = "{}.pdf".format(doc); shutil.move(path, properpath)
SourceMove ==
  /\ pc = "source_move"
  /\ LET properpath == Path(m_minus_r[i], ".pdf")
     IN /\ localpath' = properpath
        /\ local' = Put(Del(local, AttachmentPath), properpath, local[AttachmentPath])
  /\ pc' = "source_upload"
  /\ UNCHANGED <<status, remote, snapshot, lists, i, uuids, trashdir, trash, calls,
                 ghost>>

\* rmapi.upload(properpath, MENDELEY_FOLDER_IN_REMARKABLE); rmapi refuses a name that
\* the folder already has
SourceUpload ==
  /\ pc = "source_upload"
  /\ \E ok \in BOOLEAN :
       LET name == uploaded_name(localpath)
           done == ok /\ name \notin Range(tablet)
       IN /\ calls' = Append(calls, Call("upload", name, IF done THEN "ok" ELSE "fail"))
          /\ IF done
             THEN /\ tablet' = Append(tablet, name)
                  /\ pc' = "source_remove"
                  /\ UNCHANGED status
             ELSE /\ Abort("fatal")
                  /\ UNCHANGED tablet
  /\ UNCHANGED <<folders, library, files, topfolders, snapshot, lists, i, localpath,
                 uuids, local, trashdir, trash, ghost>>

\* os.remove(properpath); print("Document added")
SourceRemove ==
  /\ pc = "source_remove"
  /\ local' = Del(local, localpath)
  /\ i' = i + 1
  /\ pc' = "source"
  /\ UNCHANGED <<status, remote, snapshot, lists, localpath, uuids, trashdir, trash,
                 calls, ghost>>

SourceEnd ==
  /\ pc = "source"
  /\ i > Len(m_minus_r)
  /\ pc' = next_pass("source")
  /\ i' = 1
  /\ UNCHANGED <<status, remote, snapshot, lists, localpath, uuids, local, trashdir,
                 trash, calls, ghost>>

(* ------------------------------ main: files only on the tablet --------- *)
\* if not os.path.exists(trash): os.makedirs(trash)
MakeTrash ==
  /\ pc = "mktrash"
  /\ trashdir' = TRUE
  /\ pc' = "target"
  /\ i' = 1
  /\ UNCHANGED <<status, remote, snapshot, lists, localpath, uuids, local, trash,
                 calls, ghost>>

\* variant of after_target_download in which the copy to ./trash is left out
after_target_download_no_backup == "target_remove"

\* the step that follows the download of a file that is only on the tablet
after_target_download == "target_move"

\* localpath = "{}.pdf".format(doc); rmapi.download(...): any error ends the run
TargetDownload ==
  /\ pc = "target"
  /\ i <= Len(r_minus_m)
  /\ \E out \in GetaOutcomes :
       LET doc == r_minus_m[i]
           lp == Path(doc, ".pdf")
       IN /\ localpath' = lp
          /\ local' = download(local, doc, lp, out)
          /\ calls' = Append(calls, Call("geta", doc, out.res))
          /\ IF out.res = "ok"
             THEN /\ pc' = after_target_download
                  /\ UNCHANGED status
             ELSE Abort("fatal")
  /\ UNCHANGED <<remote, snapshot, lists, i, uuids, trashdir, trash, ghost>>

\* trashpath = "{}/{}".format(trash, localpath); shutil.move(localpath, trashpath)
TargetMove ==
  /\ pc = "target_move"
  /\ trash' = Put(trash, localpath, local[localpath])
  /\ local' = Del(local, localpath)
  /\ calls' = Append(calls, Call("move_to_trash", r_minus_m[i], "ok"))
  /\ pc' = "target_remove"
  /\ UNCHANGED <<status, remote, snapshot, lists, i, localpath, uuids, trashdir,
                 ghost>>

\* rmapi.remove(MENDELEY_FOLDER_IN_REMARKABLE, doc); print("Document removed")
TargetRemove ==
  /\ pc = "target_remove"
  /\ \E ok \in BOOLEAN :
       LET doc == r_minus_m[i]
       IN /\ calls' = Append(calls, Call("remove", doc, IF ok THEN "ok" ELSE "fail"))
          /\ IF ok
             THEN /\ tablet' = removed(tablet, doc)
                  /\ i' = i + 1
                  /\ pc' = "target"
                  /\ UNCHANGED status
             ELSE /\ Abort("fatal")
                  /\ UNCHANGED <<tablet, i>>
  /\ UNCHANGED <<folders, library, files, topfolders, snapshot, lists, localpath,
                 uuids, local, trashdir, trash, ghost>>

\* print("Sync complete!")
TargetEnd ==
  /\ pc = "target"
  /\ i > Len(r_minus_m)
  /\ pc' = next_pass("target")
  /\ status' = IF next_pass("target") = "done" THEN "ok" ELSE status
  /\ i' = 1
  /\ UNCHANGED <<remote, snapshot, lists, localpath, uuids, local, trashdir, trash,
                 calls, ghost>>

(* ------------------------------ the next run --------------------------- *)
\* main() is started again after a run that completed: nothing is kept but the two
\* remote sides and the local directories
NextRun ==
  /\ pc = "done"
  /\ run < MaxRuns
  /\ run' = run + 1
  /\ prev' = [status |-> status, m_and_r |-> m_and_r, m_minus_r |-> m_minus_r,
              r_minus_m |-> r_minus_m]
  /\ pre' = Snap
  /\ pc' = "get_folders"
  /\ status' = ""
  /\ mdocuments' = <<>>
  /\ mfiles' = NoMfiles
  /\ rfiles' = <<>>
  /\ m_and_r' = <<>>
  /\ m_minus_r' = <<>>
  /\ r_minus_m' = <<>>
  /\ i' = 0
  /\ localpath' = NoPath
  /\ calls' = <<>>
  /\ UNCHANGED <<remote, uuids, local, trashdir, trash, codec>>

Next ==
  \/ FindMendeleyFolder
  \/ FindRemarkableFolder
  \/ Diff
  \/ BothDownload
  \/ BothDeleteFile
  \/ BothAttach
  \/ BothRemove
  \/ BothEnd
  \/ SourceFetch
  \/ SourceMove
  \/ SourceUpload
  \/ SourceRemove
  \/ SourceEnd
  \/ MakeTrash
  \/ TargetDownload
  \/ TargetMove
  \/ TargetRemove
  \/ TargetEnd
  \/ NextRun

Spec == Init /\ [][Next]_vars

\* the steps of one run of main()
RunStep ==
  \/ FindMendeleyFolder
  \/ FindRemarkableFolder
  \/ Diff
  \/ BothDownload
  \/ BothDeleteFile
  \/ BothAttach
  \/ BothRemove
  \/ BothEnd
  \/ SourceFetch
  \/ SourceMove
  \/ SourceUpload
  \/ SourceRemove
  \/ SourceEnd
  \/ MakeTrash
  \/ TargetDownload
  \/ TargetMove
  \/ TargetRemove
  \/ TargetEnd

\* main() is one sequential process and every call it makes returns or raises: a
\* run that can take a step takes it.  Whether main() is started again is left open.
SpecLive == Init /\ [][Next]_vars /\ WF_vars(RunStep)

(* ------------------------------ canonicalisation alone ----------------- *)
\* Two documents whose titles are equal once sanitised (the second title is the
\* first one, possibly with a period added) are given their keys and are put in
\* the dict of main().
Titles == SeqsUpTo(Chars, MaxTitleLen)
Ids == SeqsUpTo(IdChars, MaxIdLen) \ {<<>>}
Dotted(t) == {t, t \o <<".">>, <<".">> \o t}

CodecInit ==
  /\ pc = "idle"
  /\ status = ""
  /\ run = 1
  /\ folders = {}
  /\ library = <<>>
  /\ files = <<>>
  /\ topfolders = {}
  /\ tablet = <<>>
  /\ mdocuments = <<>>
  /\ mfiles = NoMfiles
  /\ rfiles = <<>>
  /\ m_and_r = <<>>
  /\ m_minus_r = <<>>
  /\ r_minus_m = <<>>
  /\ i = 0
  /\ localpath = NoPath
  /\ uuids = 0
  /\ local = EmptyFs
  /\ trashdir = FALSE
  /\ trash = EmptyFs
  /\ calls = <<>>
  /\ pre = [files |-> <<>>, tablet |-> <<>>, trash |-> EmptyFs, local |-> EmptyFs]
  /\ prev = NoPrev
  /\ \E t \in Titles, a \in Ids, b \in Ids :
       \E u \in Dotted(t) :
         codec = [pc |-> "input", title |-> t, title2 |-> u, id1 |-> a, id2 |-> b,
                  key1 |-> <<>>, key2 |-> <<>>, size |-> 0]

Canonicalize ==
  /\ codec.pc = "input"
  /\ codec' = [codec EXCEPT
                 !.pc = "keyed",
                 !.key1 = mfiles_key(codec.title, codec.id1),
                 !.key2 = mfiles_key(codec.title2, codec.id2),
                 !.size = Cardinality(DOMAIN mfiles_of(
                            << [title |-> codec.title, id |-> codec.id1],
                               [title |-> codec.title2, id |-> codec.id2] >>))]
  /\ UNCHANGED <<pc, status, run, remote, snapshot, lists, i, localpath, uuids, local,
                 trashdir, trash, calls, pre, prev>>

SpecCodec == CodecInit /\ [][Canonicalize]_vars

(* ====================== properties of the program ====================== *)
\* the two key sets of the run, once both sides have been read
S == DOMAIN mfiles
T == Range(rfiles)
\* the three lists have been computed
Diffed == pc \notin {"idle", "get_folders", "subfolders", "diff"} /\ status # "config"
Ended == pc \in {"done", "aborted"}

CallsOf(k) == SelectSeq(calls, LAMBDA c : c.key = k)
OpsOf(k) == LET cs == CallsOf(k) IN [x \in DOMAIN cs |-> cs[x].op]
Mutating == {"file_delete", "attach_file", "upload", "move_to_trash", "remove"}

\* C1: a file that is only on the tablet is removed from the tablet only after its
\* annotated export was downloaded and moved to ./trash (the two calls just before
\* the removal), where it then is; and once
\* the download of such a file has failed, the run has made no removal of it and
\* makes no further call at all.
BackupBeforeDelete ==
  /\ \A j \in DOMAIN calls :
       calls[j].op = "remove" =>
         /\ j >= 3
         /\ calls[j - 2] = Call("geta", calls[j].key, "ok")
         /\ calls[j - 1] = Call("move_to_trash", calls[j].key, "ok")
         /\ Path(calls[j].key, ".pdf") \in DOMAIN trash
         /\ trash[Path(calls[j].key, ".pdf")] = Export(calls[j].key)
  /\ \A j \in DOMAIN calls :
       (calls[j].op = "geta" /\ calls[j].res # "ok" /\ calls[j].key \in T \ S) =>
         /\ j = Len(calls)
         /\ pc = "aborted"
         /\ \A h \in DOMAIN calls :
              ~(calls[h].op = "remove" /\ calls[h].key = calls[j].key)

\* C1 witness: a removal from the tablet has been made, and a later backup has failed
BackupBeforeDeleteWitness ==
  /\ \E j \in DOMAIN calls : calls[j].op = "remove" /\ calls[j].res = "ok"
  /\ pc = "aborted"
  /\ calls[Len(calls)].op = "geta"
  /\ calls[Len(calls)].key \in T \ S

\* C2: once computed, the three lists are pairwise disjoint and together hold
\* exactly the keys of the two sides: every key is in exactly one list.
PartitionDisjointCover ==
  Diffed =>
    /\ Range(m_and_r) \cap Range(m_minus_r) = {}
    /\ Range(m_and_r) \cap Range(r_minus_m) = {}
    /\ Range(m_minus_r) \cap Range(r_minus_m) = {}
    /\ Range(m_and_r) \cup Range(m_minus_r) \cup Range(r_minus_m) = S \cup T
    /\ \A k \in S \cup T :
         Cardinality({x \in 1..3 :
                        k \in Range(<<m_and_r, m_minus_r, r_minus_m>>[x])}) = 1

\* C2 witness: a diff whose three lists are all non-empty
PartitionDisjointCoverWitness ==
  Diffed /\ m_and_r # <<>> /\ m_minus_r # <<>> /\ r_minus_m # <<>>

\* C3: when the export of a document that is on both sides fails for want of
\* annotations, the attached files of every document stay as they are, the run is
\* not ended, and the loop goes on to its next key.
NoAnnotationSkip ==
  [][ ( /\ pc = "both"
        /\ i <= Len(m_and_r)
        /\ calls' = Append(calls, Call("geta", m_and_r[i], "noannot")) )
      => ( /\ files' = files
           /\ tablet' = tablet
           /\ pc' = "both"
           /\ status' = ""
           /\ i' = i + 1 ) ]_vars

\* C3 witness: a document with attached files was skipped for want of annotations and
\* the loop has gone on to the next document, which it has synced
NoAnnotationSkipWitness ==
  /\ Len(calls) >= 2
  /\ calls[1].op = "geta"
  /\ calls[1].res = "noannot"
  /\ calls[1].key \in S
  /\ pre.files[mfiles[calls[1].key]] # <<>>
  /\ calls[Len(calls)].op = "attach_file"
  /\ calls[Len(calls)].res = "ok"

\* C4 as claimed: in a run that follows a completed run, the list of the documents on
\* both sides is the intersection of the two sides and the two other lists are empty.
SecondRunSteadyAsClaimed ==
  (run >= 2 /\ Diffed) =>
    /\ Range(m_and_r) = S \cap T
    /\ m_minus_r = <<>>
    /\ r_minus_m = <<>>

\* C4 as amended: in a run that follows a completed run, nothing is only on the
\* tablet; what is only in Mendeley is exactly what was only in Mendeley before and
\* has no attached file; everything else of Mendeley is on both sides.
SecondRunSteady ==
  (run >= 2 /\ Diffed) =>
    /\ prev.status = "ok"
    /\ r_minus_m = <<>>
    /\ Range(m_minus_r) =
         {k \in Range(prev.m_minus_r) : pre.files[mfiles[k]] = <<>>}
    /\ Range(m_and_r) = S \ Range(m_minus_r)
    /\ Range(m_and_r) =
         Range(prev.m_and_r) \cup
         {k \in Range(prev.m_minus_r) : pre.files[mfiles[k]] # <<>>}

\* C4 witness: the second run has computed its lists after a first run that had
\* something to upload and something to remove
SecondRunSteadyWitness ==
  /\ run = 2
  /\ Diffed
  /\ \E k \in Range(prev.m_minus_r) : k \in Range(m_and_r)
  /\ prev.r_minus_m # <<>>

\* C5 as claimed: when a run has ended, completed or not, the working directory holds
\* no file.
NoTemporaryFileLeft ==
  Ended => DOMAIN local = {}

\* C6: when the folder is missing on either side the run never gets to the diff, and
\* when it has ended it has ended as a configuration error without any call made
\* and with Mendeley, the tablet, ./trash and the working directory as they were.
MissingFolder ==
  \/ REMARKABLE_FOLDER_IN_MENDELEY \notin folders
  \/ MENDELEY_FOLDER_IN_REMARKABLE \notin topfolders

ConfigAbortBeforeMutation ==
  (pc # "idle" /\ MissingFolder) =>
    /\ pc \in {"get_folders", "subfolders", "aborted"}
    /\ pc = "aborted" => status = "config"
    /\ calls = <<>>
    /\ files = pre.files
    /\ tablet = pre.tablet
    /\ trash = pre.trash
    /\ local = pre.local
    /\ ~trashdir

\* C6 witness: the run has ended for want of the tablet folder while Mendeley had
\* documents to upload
ConfigAbortWitness ==
  /\ pc = "aborted"
  /\ status = "config"
  /\ mdocuments # <<>>
  /\ MENDELEY_FOLDER_IN_REMARKABLE \notin topfolders

\* C7: in the order of the calls of a run, every call for a key of both sides comes
\* before every call for a key only in Mendeley, which comes before every call for a
\* key only on the tablet.
PassRank(k) == IF k \in S \cap T THEN 1 ELSE IF k \in S THEN 2 ELSE 3

\* (stated on neighbours: the order of any two calls follows by transitivity)
PassOrder ==
  \A a \in 1..(Len(calls) - 1) :
    PassRank(calls[a].key) <= PassRank(calls[a + 1].key)

\* C7 witness: a run that has made a call for a key of each of the three kinds
PassOrderWitness ==
  \A r \in 1..3 : \E a \in DOMAIN calls : PassRank(calls[a].key) = r

\* C8: a run that completed with every call successful, the fetch of a first attached
\* file included (every document only in Mendeley had one), has made for each key
\* exactly the calls of its list and no other: export, deletion of each attached
\* file and attachment for a key of both sides; download and upload for a key only
\* in Mendeley; export, move to ./trash and removal for a key only on the tablet.
AllSucceeded ==
  /\ \A j \in DOMAIN calls : calls[j].res = "ok"
  /\ \A k \in S \ T : pre.files[mfiles[k]] # <<>>

ExpectedOps(k) ==
  IF k \in S \cap T
    THEN <<"geta">> \o [x \in 1..Len(pre.files[mfiles[k]]) |-> "file_delete"]
         \o <<"attach_file">>
  ELSE IF k \in S THEN <<"file_download", "upload">>
  ELSE IF k \in T THEN <<"geta", "move_to_trash", "remove">>
  ELSE <<>>

OneActionPerKey ==
  (pc = "done" /\ AllSucceeded) =>
    /\ \A j \in DOMAIN calls : calls[j].key \in S \cup T
    /\ \A k \in S \cup T : OpsOf(k) = ExpectedOps(k)
    /\ tablet = Drop(pre.tablet, T \ S) \o m_minus_r

\* C8 witness: such a run with one document to upload, one to replace, one to remove
OneActionPerKeyWitness ==
  /\ pc = "done"
  /\ AllSucceeded
  /\ Len(m_and_r) = 1
  /\ Len(m_minus_r) = 1
  /\ Len(r_minus_m) = 1

\* C9: the three lists are, as sets, the intersection and the two differences of the
\* key sets of the two sides.
PartitionIsSetAlgebra ==
  Diffed =>
    /\ Range(m_and_r) = S \cap T
    /\ Range(m_minus_r) = S \ T
    /\ Range(r_minus_m) = T \ S
    /\ T = {} => (m_and_r = <<>> /\ Range(m_minus_r) = S /\ r_minus_m = <<>>)
    /\ S = {} => (m_and_r = <<>> /\ m_minus_r = <<>> /\ Range(r_minus_m) = T)

\* C9 witness: a diff against an empty tablet folder of a Mendeley folder that is not
PartitionIsSetAlgebraWitness ==
  Diffed /\ rfiles = <<>> /\ Len(m_minus_r) = MaxDocs

\* C10: two documents whose sanitised titles are equal and whose ids differ get
\* different keys, and so are two entries of the dict of main().
KeyInjectiveOverId ==
  (codec.pc = "keyed" /\ codec.id1 # codec.id2) =>
    /\ codec.key1 # codec.key2
    /\ codec.size = 2

\* C10 witness: two keyed documents with titles that differ by a period only and with
\* different ids
KeyInjectiveOverIdWitness ==
  /\ codec.pc = "keyed"
  /\ codec.id1 # codec.id2
  /\ codec.title # codec.title2
  /\ to_filename(codec.title) = to_filename(codec.title2)

\* C11 as claimed: when a run has ended, completed or not, no document that is on both
\* sides and had an attached file when the run started is without attached file.
NoBothDocumentLeftEmpty ==
  (Ended /\ Diffed) =>
    \A k \in S \cap T :
      pre.files[mfiles[k]] # <<>> => files[mfiles[k]] # <<>>

\* C12: a document that is only in Mendeley and has no attached file is passed over:
\* no call is made for it, the working directory, the tablet and the attached files
\* stay as they are, the run is not ended and the loop goes on to its next key (and,
\* after its last key, to the files that are only on the tablet).
NoAttachmentSkip ==
  [][ ( /\ pc = "source"
        /\ i <= Len(m_minus_r)
        /\ files[mfiles[m_minus_r[i]]] = <<>> )
      => ( /\ calls' = calls
           /\ local' = local
           /\ tablet' = tablet
           /\ files' = files
           /\ pc' = "source"
           /\ status' = ""
           /\ i' = i + 1 ) ]_vars

\* C12 witness: a run has completed in which the first of two documents only in
\* Mendeley had no attached file, the second was uploaded, and a file only on the
\* tablet was removed
NoAttachmentSkipWitness ==
  /\ pc = "done"
  /\ Len(m_minus_r) = 2
  /\ pre.files[mfiles[m_minus_r[1]]] = <<>>
  /\ CallsOf(m_minus_r[1]) = <<>>
  /\ \E j \in DOMAIN calls : calls[j] = Call("upload", m_minus_r[2], "ok")
  /\ \E j \in DOMAIN calls : calls[j].op = "remove" /\ calls[j].res = "ok"

\* C13: a call that fails, other than the export of a document of both sides failing
\* for want of annotations, is the last call of the run, which ends there as a fatal
\* error; and what the successful calls before it did is still in place: the uploaded
\* names are on the tablet and the removed ones are not, the files moved to ./trash
\* are there, and every document has its former files less the deleted ones plus
\* the attached export.
Benign(c) == c.op = "geta" /\ c.res = "noannot" /\ c.key \in S \cap T
Failed(c) == c.res # "ok" /\ ~Benign(c)
Succeeded(op) == SelectSeq(calls, LAMBDA c : c.op = op /\ c.res = "ok")
KeysOf(cs) == [x \in DOMAIN cs |-> cs[x].key]
CountOf(op, k) == Cardinality({j \in DOMAIN calls : calls[j] = Call(op, k, "ok")})

FailFastNoRollback ==
  /\ \A j \in DOMAIN calls :
       Failed(calls[j]) => (j = Len(calls) /\ pc = "aborted" /\ status = "fatal")
  /\ (pc = "aborted" /\ status = "fatal") => (calls # <<>> /\ Failed(calls[Len(calls)]))
  /\ calls # <<>> =>
       /\ tablet = Drop(pre.tablet, Range(KeysOf(Succeeded("remove"))))
                     \o KeysOf(Succeeded("upload"))
       /\ \A k \in Range(KeysOf(Succeeded("move_to_trash"))) :
            Path(k, ".pdf") \in DOMAIN trash
       /\ \A k \in S :
            Len(files[mfiles[k]]) =
              Len(pre.files[mfiles[k]]) - CountOf("file_delete", k)
                + CountOf("attach_file", k)

\* C13 witness: a run that has uploaded one document and has then ended on the failed
\* upload of the next one, the first upload still on the tablet
FailFastNoRollbackWitness ==
  /\ pc = "aborted"
  /\ Len(calls) >= 2
  /\ calls[Len(calls)].op = "upload"
  /\ calls[Len(calls)].res = "fail"
  /\ \E j \in DOMAIN calls :
       /\ calls[j].op = "upload"
       /\ calls[j].res = "ok"
       /\ calls[j].key \in Range(tablet)

\* C14 as claimed: the sanitised title of a keyed document has no "---" in it.
HasDelimiter(text) ==
  \E x \in 1..(Len(text) - 2) :
    text[x] = "-" /\ text[x + 1] = "-" /\ text[x + 2] = "-"

SanitisedTitleHasNoDelimiter ==
  codec.pc = "keyed" => ~HasDelimiter(to_filename(codec.title))

\* C15: once the export of a document of both sides has been attached, the attached
\* files of the document are that export and nothing else, however many files it had.
ExportIsSoleAttachment ==
  \A j \in DOMAIN calls :
    (calls[j].op = "attach_file" /\ calls[j].res = "ok") =>
      files[mfiles[calls[j].key]] = <<Export(calls[j].key)>>

\* C15 witness: the export was attached to a document that had two files
ExportIsSoleAttachmentWitness ==
  \E j \in DOMAIN calls :
    /\ calls[j].op = "attach_file"
    /\ calls[j].res = "ok"
    /\ Len(pre.files[mfiles[calls[j].key]]) = 2
    /\ pc = "both_remove"

\* C16: the removals from the tablet and the moves to ./trash of a run are all for
\* names that were on the tablet and not among the keys of Mendeley when the two
\* sides were read; a key of Mendeley that was on the tablet is still there, and no
\* file named after a key of Mendeley has been added to ./trash.
SourceKeysNeverRemoved ==
  /\ \A j \in DOMAIN calls :
       calls[j].op \in {"remove", "move_to_trash"} => calls[j].key \in T \ S
  /\ \A k \in S : k \in Range(pre.tablet) => k \in Range(tablet)
  /\ \A p \in (DOMAIN trash) \ (DOMAIN pre.trash) : p.base \notin S

\* C16 witness: a file only on the tablet has been removed while a key of both sides
\* is still on the tablet
SourceKeysNeverRemovedWitness ==
  /\ \E j \in DOMAIN calls : calls[j].op = "remove" /\ calls[j].res = "ok"
  /\ S \cap T # {}
  /\ S \cap T \subseteq Range(tablet)
  /\ DOMAIN trash # {}

\* C17: a step changes the attached files only in the loop over the documents of
\* both sides, and then only those of the document it is at, whose key is on both
\* sides; the steps of the two other loops leave all attached files as they are, and
\* the steps of the loop over the documents of both sides leave the tablet as it is.
BothSteps == {"both", "both_delete", "both_remove"}
OtherSteps == {"source", "source_move", "source_upload", "source_remove", "mktrash",
               "target", "target_move", "target_remove"}

FrameOfPasses ==
  [][ /\ files' # files =>
           /\ pc \in BothSteps
           /\ m_and_r[i] \in S \cap T
           /\ \A x \in DOMAIN files :
                x # mfiles[m_and_r[i]] => files'[x] = files[x]
      /\ pc \in OtherSteps => files' = files
      /\ pc \in BothSteps => tablet' = tablet
      /\ tablet' # tablet => pc \in {"source_upload", "target_remove"} ]_vars

\* C17 witness: a completed run that has attached an export, uploaded a document and
\* removed a file, the uploaded document's files being as they were
FrameOfPassesWitness ==
  /\ pc = "done"
  /\ \E j \in DOMAIN calls : calls[j].op = "attach_file" /\ calls[j].res = "ok"
  /\ \E j \in DOMAIN calls : calls[j].op = "remove" /\ calls[j].res = "ok"
  /\ \E j \in DOMAIN calls :
       /\ calls[j].op = "upload"
       /\ calls[j].res = "ok"
       /\ files[mfiles[calls[j].key]] = pre.files[mfiles[calls[j].key]]
       /\ files[mfiles[calls[j].key]] # <<>>

\* C18: when a run has completed, the names on the tablet are the keys of Mendeley
\* less those of the documents that were only in Mendeley and had no attached file,
\* and ./trash holds the export of every name that was only on the tablet.
CompletedRunResult ==
  pc = "done" =>
    /\ Range(tablet) = S \ {k \in S \ T : pre.files[mfiles[k]] = <<>>}
    /\ \A k \in T \ S :
         /\ Path(k, ".pdf") \in DOMAIN trash
         /\ trash[Path(k, ".pdf")] = Export(k)

\* C18 witness: a completed run with a file only on the tablet and two documents only
\* in Mendeley, one of them without attached file
CompletedRunResultWitness ==
  /\ pc = "done"
  /\ T \ S # {}
  /\ \E k \in S \ T : pre.files[mfiles[k]] = <<>>
  /\ \E k \in S \ T : pre.files[mfiles[k]] # <<>>

\* C19: every run that is started ends, completed or aborted; and in a run the calls
\* made for a key are made in a row and are the calls of the one list the key is in,
\* each made once at most.
IsPrefix(s, t) == Len(s) <= Len(t) /\ \A x \in DOMAIN s : s[x] = t[x]

ActsOncePerKey ==
  /\ \A k \in S \cup T : IsPrefix(OpsOf(k), ExpectedOps(k))
  /\ \A j \in DOMAIN calls : calls[j].key \in S \cup T
  /\ \A b \in 2..Len(calls) :
       calls[b - 1].key # calls[b].key =>
         \A a \in 1..(b - 1) : calls[a].key # calls[b].key

\* the number of steps a run can still take, at most: what is left of the iteration
\* it is in, the iterations to come of the loop it is in, and the loops to come
RECURSIVE BothLeft(_)
BothLeft(x) ==
  IF x > Len(m_and_r) THEN 0
  ELSE 3 + Len(files[mfiles[m_and_r[x]]]) + BothLeft(x + 1)

RECURSIVE AllFiles(_)
AllFiles(x) == IF x > Len(library) THEN 0 ELSE Len(files[x]) + AllFiles(x + 1)

SourceLeft(x) == IF x > Len(m_minus_r) THEN 0 ELSE 4 * (Len(m_minus_r) - x + 1)
TargetLeft(x) == IF x > Len(r_minus_m) THEN 0 ELSE 3 * (Len(r_minus_m) - x + 1)
AfterBoth == 1 + SourceLeft(1) + 1 + 1 + TargetLeft(1) + 1
AfterSource == 1 + 1 + TargetLeft(1) + 1
WholeRun == 4 * Len(library) + AllFiles(1) + 3 * Len(tablet) + 4

StepsLeft ==
  CASE pc = "get_folders" -> WholeRun + 3
    [] pc = "subfolders" -> WholeRun + 2
    [] pc = "diff" -> WholeRun + 1
    [] pc = "both" -> BothLeft(i) + AfterBoth
    [] pc = "both_delete" ->
         Len(files[mfiles[m_and_r[i]]]) + 2 + BothLeft(i + 1) + AfterBoth
    [] pc = "both_remove" -> 1 + BothLeft(i + 1) + AfterBoth
    [] pc = "source" -> SourceLeft(i) + AfterSource
    [] pc = "source_move" -> 3 + SourceLeft(i + 1) + AfterSource
    [] pc = "source_upload" -> 2 + SourceLeft(i + 1) + AfterSource
    [] pc = "source_remove" -> 1 + SourceLeft(i + 1) + AfterSource
    [] pc = "mktrash" -> 1 + TargetLeft(1) + 1
    [] pc = "target" -> TargetLeft(i) + 1
    [] pc = "target_move" -> 2 + TargetLeft(i + 1) + 1
    [] pc = "target_remove" -> 1 + TargetLeft(i + 1) + 1
    [] OTHER -> 0

\* (termination is stated without <>: a run that has not ended can take a step, and
\* every step of a run lowers StepsLeft, a natural number, so that under the fairness
\* of SpecLive the run ends; EveryRunEnds below states the same with ~>)
EveryRunEndsActingOnce ==
  /\ [](Ended \/ ENABLED RunStep)
  /\ [][RunStep => (StepsLeft' < StepsLeft /\ StepsLeft' >= 0)]_vars
  /\ []ActsOncePerKey

EveryRunEnds == (pc = "get_folders") ~> Ended

\* C19 witness: a run that has completed after calls for three keys, one of each list
EveryRunEndsActingOnceWitness ==
  /\ pc = "done"
  /\ \A r \in 1..3 : \E a \in DOMAIN calls : PassRank(calls[a].key) = r
  /\ Len(calls) >= 7
====
